---- MODULE Spec2Model ----
(***************************************************************************)
(* Goals! - a single-user goal tracker (src/goals_app.py).                 *)
(*                                                                         *)
(* The model follows the program: the in-memory goal list, the two JSON    *)
(* files (goals_data.json, settings.json), the status label, the rows      *)
(* drawn by update_display, and one action per UI handler.  Text is a      *)
(* sequence of one-character strings, so that strip(), lower(), string     *)
(* ordering, date parsing and number formatting are computed as the code   *)
(* computes them.                                                          *)
(*                                                                         *)
(* Abstractions, all stated where they are made:                           *)
(*  - date.fromisoformat is the YYYY-MM-DD parser the program documents    *)
(*    ("Use YYYY-MM-DD"); the extra formats of newer interpreters are not  *)
(*    modelled;                                                            *)
(*  - the random encouragement text of a row is left out of the row;       *)
(*  - a JSON file is its document (a sequence of objects, each a sequence  *)
(*    of key/value pairs), or a text that does not parse;                  *)
(*  - widget geometry and the font tuples are left out.                    *)
(***************************************************************************)
EXTENDS Integers, Sequences, FiniteSets, TLC

(***************************************************************************)
(* Program constants (src/goals_app.py lines 11-26)                        *)
(***************************************************************************)
MAX_GOALS == 10
DEFAULT_FONT_SIZE == 16
MIN_FONT_SIZE == 12
MAX_FONT_SIZE == 24
FONT_SIZE_INCREMENT == 2

\* range(MIN_FONT_SIZE, MAX_FONT_SIZE + 1, FONT_SIZE_INCREMENT), as numbers
AvailableSizes ==
    { s \in MIN_FONT_SIZE..MAX_FONT_SIZE : (s - MIN_FONT_SIZE) % FONT_SIZE_INCREMENT = 0 }

(***************************************************************************)
(* Bounds of the model                                                     *)
(***************************************************************************)
\* UI events (add, delete, font size, close) explored in one behaviour
MaxOps == 2

(***************************************************************************)
(* Text: characters, ordering, strip, lower, str(int)                      *)
(***************************************************************************)
\* the printable ASCII characters in code order, from code 32 (the double
\* quote, the backslash and the backquote stand as named tokens)
ASCII ==
    <<" ", "!", "<quote>", "#", "$", "%", "&", "'", "(", ")", "*", "+", ",", "-", ".", "/",
    "0", "1", "2", "3", "4", "5", "6", "7", "8", "9", ":", ";", "<", "=", ">", "?",
    "@", "A", "B", "C", "D", "E", "F", "G", "H", "I", "J", "K", "L", "M", "N", "O",
    "P", "Q", "R", "S", "T", "U", "V", "W", "X", "Y", "Z", "[", "<backslash>", "]", "^", "_",
    "<backquote>", "a", "b", "c", "d", "e", "f", "g", "h", "i", "j", "k", "l", "m", "n", "o",
    "p", "q", "r", "s", "t", "u", "v", "w", "x", "y", "z", "{", "|", "}", "~">>

\* ord(c), as a table
OrdTable == [c \in {ASCII[i] : i \in 1..Len(ASCII)} |->
                31 + (CHOOSE i \in 1..Len(ASCII) : ASCII[i] = c)]

Ord(c) == OrdTable[c]

Chr(n) == ASCII[n - 31]

DIGITS == <<"0", "1", "2", "3", "4", "5", "6", "7", "8", "9">>

IsDigit(c) == \E i \in 1..10 : DIGITS[i] = c

DigitVal(c) == (CHOOSE i \in 1..10 : DIGITS[i] = c) - 1

IsSpace(c) == c \in {" ", "\t", "\n"}

\* str.lower() on one character (ASCII letters)
LowerChar(c) == IF Ord(c) >= 65 /\ Ord(c) <= 90 THEN Chr(Ord(c) + 32) ELSE c

\* str.lower()
Lower(s) == [i \in 1..Len(s) |-> LowerChar(s[i])]

RECURSIVE LStrip(_)
LStrip(s) == IF s # <<>> /\ IsSpace(Head(s)) THEN LStrip(Tail(s)) ELSE s

RECURSIVE RStrip(_)
RStrip(s) ==
    IF s # <<>> /\ IsSpace(s[Len(s)]) THEN RStrip(SubSeq(s, 1, Len(s) - 1)) ELSE s

\* a strip that leaves the trailing white space
Strip_LeftOnly(s) == LStrip(s)

\* str.strip()
Strip(s) == RStrip(LStrip(s))

\* the < of Python on str: lexicographic by code point
RECURSIVE StrLess(_, _)
StrLess(a, b) ==
    IF b = <<>> THEN FALSE
    ELSE IF a = <<>> THEN TRUE
    ELSE IF Head(a) # Head(b) THEN Ord(Head(a)) < Ord(Head(b))
    ELSE StrLess(Tail(a), Tail(b))

\* str(n) / f"{n}" for n >= 0
RECURSIVE IntToStr(_)
IntToStr(n) ==
    IF n < 10 THEN <<DIGITS[n + 1]>>
    ELSE IntToStr(n \div 10) \o <<DIGITS[(n % 10) + 1]>>

\* int(s) for a string of decimal digits
RECURSIVE DigitsToInt(_)
DigitsToInt(s) ==
    IF s = <<>> THEN 0
    ELSE 10 * DigitsToInt(SubSeq(s, 1, Len(s) - 1)) + DigitVal(s[Len(s)])

\* ', '.join(parts)
RECURSIVE Join(_)
Join(parts) ==
    IF parts = <<>> THEN <<>>
    ELSE IF Len(parts) = 1 THEN parts[1]
    ELSE parts[1] \o <<",", " ">> \o Join(Tail(parts))

\* whether needle occurs in hay (needle in hay)
Contains(hay, needle) ==
    \E i \in 1..(Len(hay) - Len(needle) + 1) :
        SubSeq(hay, i, i + Len(needle) - 1) = needle

(***************************************************************************)
(* datetime.date                                                           *)
(***************************************************************************)
IsLeap(y) == (y % 4 = 0) /\ ((y % 100 # 0) \/ (y % 400 = 0))

DaysInMonth(y, m) ==
    IF m = 2 THEN (IF IsLeap(y) THEN 29 ELSE 28)
    ELSE IF m \in {4, 6, 9, 11} THEN 30 ELSE 31

RECURSIVE DaysBeforeMonth(_, _)
DaysBeforeMonth(y, m) ==
    IF m = 1 THEN 0 ELSE DaysBeforeMonth(y, m - 1) + DaysInMonth(y, m - 1)

DaysBeforeYear(y) ==
    (y - 1) * 365 + ((y - 1) \div 4) - ((y - 1) \div 100) + ((y - 1) \div 400)

\* date.toordinal(); date subtraction is the difference of ordinals
ToOrdinal(d) == DaysBeforeYear(d.year) + DaysBeforeMonth(d.year, d.month) + d.day

NoDate == [ok |-> FALSE, year |-> 0, month |-> 0, day |-> 0]

\* date.fromisoformat(s): the date, or ok = FALSE where Python raises ValueError
FromIsoFormat(s) ==
    IF /\ Len(s) = 10
       /\ s[5] = "-"
       /\ s[8] = "-"
       /\ \A i \in {1, 2, 3, 4, 6, 7, 9, 10} : IsDigit(s[i])
    THEN LET y == DigitsToInt(SubSeq(s, 1, 4))
             m == DigitsToInt(SubSeq(s, 6, 7))
             d == DigitsToInt(SubSeq(s, 9, 10))
         IN  IF y >= 1 /\ m >= 1 /\ m <= 12 /\ d >= 1 /\ d <= DaysInMonth(y, m)
             THEN [ok |-> TRUE, year |-> y, month |-> m, day |-> d]
             ELSE NoDate
    ELSE NoDate

\* zero-padded decimal of width w (%Y, %m, %d)
RECURSIVE Pad(_, _)
Pad(s, w) == IF Len(s) >= w THEN s ELSE Pad(<<"0">> \o s, w)

\* the time of day of datetime.now(), "%H:%M"; one fixed reading of the clock
ClockStr == <<"0", "9", ":", "0", "0">>

\* datetime.now().strftime("%Y-%m-%d %H:%M") on the day `today'
NowStr(today) ==
    Pad(IntToStr(today.year), 4) \o <<"-">> \o Pad(IntToStr(today.month), 2)
        \o <<"-">> \o Pad(IntToStr(today.day), 2) \o <<" ">> \o ClockStr

(***************************************************************************)
(* calculate_time_elapsed                                                  *)
(***************************************************************************)
TODAY_MSG == <<"T", "o", "d", "a", "y", " ", "i", "s", " ", "t", "h", "e", " ", "d", "a", "y", "!">>

INVALID_MSG ==
    <<"I", "n", "v", "a", "l", "i", "d", " ", "D", "a", "t", "e", " ", "F", "o", "r",
    "m", "a", "t", " ", "(", "U", "s", "e", " ", "Y", "Y", "Y", "Y", "-", "M", "M",
    "-", "D", "D", ")">>

STR_ago == <<" ", "a", "g", "o">>

STR_year == <<" ", "y", "e", "a", "r">>

STR_day == <<" ", "d", "a", "y">>

STR_Date == <<"D", "a", "t", "e", " ">>

STR_future ==
    <<" ", "i", "s", " ", "i", "n", " ", "t", "h", "e", " ", "f", "u", "t", "u", "r",
    "e", " ", "(", "c", "u", "r", "r", "e", "n", "t", " ", "t", "i", "m", "e", ":",
    " ">>

STR_close == <<")", ".">>

\* the value of an expression, evaluated once: the element of a singleton
The(S) == CHOOSE x \in S : TRUE

\* Optional[int]: None is the empty sequence, n is <<n>>
None == <<>>

Some(n) == <<n>>

\* the parts with the year clause always in the plural
ElapsedParts_AlwaysPlural(deltaDays) ==
    LET years == deltaDays \div 365
        days  == deltaDays % 365
    IN  (IF years > 0 THEN <<IntToStr(years) \o STR_year \o <<"s">>>> ELSE <<>>)
        \o
        (IF days > 0 \/ deltaDays = 0
         THEN <<IntToStr(days) \o STR_day \o (IF days # 1 THEN <<"s">> ELSE <<>>)>>
         ELSE <<>>)

\* lines 45-49: the list `parts'
ElapsedParts(deltaDays) ==
    LET years == deltaDays \div 365
        days  == deltaDays % 365
    IN  (IF years > 0
         THEN <<IntToStr(years) \o STR_year \o (IF years > 1 THEN <<"s">> ELSE <<>>)>>
         ELSE <<>>)
        \o
        (IF days > 0 \/ deltaDays = 0
         THEN <<IntToStr(days) \o STR_day \o (IF days # 1 THEN <<"s">> ELSE <<>>)>>
         ELSE <<>>)

\* calculate_time_elapsed(start_date_str), with date.today() = today
calculate_time_elapsed(start_date_str, today) ==
    LET start_date == FromIsoFormat(start_date_str)
    IN  IF ~start_date.ok
        THEN [text |-> INVALID_MSG, days |-> None]
        ELSE
          LET deltaDays == ToOrdinal(today) - ToOrdinal(start_date)
              parts == ElapsedParts(deltaDays)
          IN  IF deltaDays < 0
              THEN [text |-> STR_Date \o start_date_str \o STR_future
                                \o NowStr(today) \o STR_close,
                    days |-> None]
              ELSE IF deltaDays = 0
              THEN [text |-> TODAY_MSG, days |-> Some(deltaDays)]
              ELSE IF parts = <<>>
              THEN [text |-> IntToStr(deltaDays) \o STR_day
                                \o (IF deltaDays # 1 THEN <<"s">> ELSE <<>>) \o STR_ago,
                    days |-> Some(deltaDays)]
              ELSE [text |-> Join(parts) \o STR_ago, days |-> Some(deltaDays)]

(***************************************************************************)
(* list.sort(key=...): stable, keys computed first                         *)
(***************************************************************************)
\* insert the pair p = <<key, item>> after every pair whose key is not greater
RECURSIVE InsertByStr(_, _)
InsertByStr(sorted, p) ==
    IF sorted = <<>> THEN <<p>>
    ELSE IF StrLess(p[1], Head(sorted)[1]) THEN <<p>> \o sorted
    ELSE <<Head(sorted)>> \o InsertByStr(Tail(sorted), p)

RECURSIVE SortPairsByStr(_)
SortPairsByStr(pairs) ==
    IF pairs = <<>> THEN <<>>
    ELSE InsertByStr(SortPairsByStr(SubSeq(pairs, 1, Len(pairs) - 1)), pairs[Len(pairs)])

RECURSIVE InsertByInt(_, _)
InsertByInt(sorted, p) ==
    IF sorted = <<>> THEN <<p>>
    ELSE IF p[1] < Head(sorted)[1] THEN <<p>> \o sorted
    ELSE <<Head(sorted)>> \o InsertByInt(Tail(sorted), p)

RECURSIVE SortPairsByInt(_)
SortPairsByInt(pairs) ==
    IF pairs = <<>> THEN <<>>
    ELSE InsertByInt(SortPairsByInt(SubSeq(pairs, 1, Len(pairs) - 1)), pairs[Len(pairs)])

Items(pairs) == [i \in 1..Len(pairs) |-> pairs[i][2]]

(***************************************************************************)
(* dict and JSON                                                           *)
(***************************************************************************)
\* dict.get(key, default); a dict is a function from its keys
Get(obj, key, default) == IF key \in DOMAIN obj THEN obj[key] ELSE default

\* the keys of a goal dict in insertion order (line 386)
GoalKeys == <<"name", "date">>

\* json.dump of one dict: its key/value pairs in insertion order
DumpObj(obj) ==
    LET keys == SelectSeq(GoalKeys, LAMBDA k : k \in DOMAIN obj)
    IN  [i \in 1..Len(keys) |-> <<keys[i], obj[keys[i]]>>]

\* json.load of one object: a dict; a repeated key keeps its last value
LoadObj(pairs) ==
    [k \in {pairs[i][1] : i \in 1..Len(pairs)} |->
        pairs[CHOOSE i \in 1..Len(pairs) :
                /\ pairs[i][1] = k
                /\ \A j \in (i + 1)..Len(pairs) : pairs[j][1] # k][2]]

\* json.dump(self.goals, f): the document written
JsonDumpGoals(gs) == [i \in 1..Len(gs) |-> DumpObj(gs[i])]

\* json.load(f) of a goals document
JsonLoadGoals(doc) == [i \in 1..Len(doc) |-> LoadObj(doc[i])]

\* a file: missing, a text that is not JSON, or a JSON document
MissingFile == [kind |-> "missing", doc |-> <<>>]

CorruptFile == [kind |-> "corrupt", doc |-> <<>>]

JsonFile(doc) == [kind |-> "json", doc |-> doc]

\* the ways  with open(FILE, 'w') as f: json.dump(..., f)  can end
WriteOutcomes == {"ok", "open_failed", "dump_failed"}

\* the file after the write: written; untouched when open() raises; truncated
\* by open(..., 'w') and left without a complete document when the dump raises
WriteFile(old, doc, outcome) ==
    IF outcome = "ok" THEN JsonFile(doc)
    ELSE IF outcome = "open_failed" THEN old
    ELSE CorruptFile

\* JSON values of the settings object: an integer or a string
JInt(n) == [t |-> "int", n |-> n]

JStr == [t |-> "str", n |-> 0]

\* json.dump({"font_size": size}, f): the document written (lines 223-228)
SettingsDoc(size) == <<<<"font_size", JInt(size)>>>>

(***************************************************************************)
(* Status label                                                            *)
(***************************************************************************)
BlankStatus == [text |-> "", arg |-> <<>>, color |-> "gray"]

\* update_status(message, color): the label (the message as its template and
\* the text filled in), and the auto-clear job, which is scheduled unless the
\* colour is red (lines 416-429); the job firing, which only blanks the label,
\* is not modelled
Status(text, arg, color) == [text |-> text, arg |-> arg, color |-> color]

StatusJob(color) == IF color # "red" THEN "pending" ELSE "none"

(***************************************************************************)
(* State                                                                   *)
(***************************************************************************)
VARIABLES
    pc,                 \* "off": no process; "idle": in mainloop; "crashed": __init__ raised
    goals,              \* self.goals
    data_file,          \* goals_data.json
    settings_file,      \* settings.json
    current_font_size,  \* self.current_font_size
    combobox,           \* the value shown by font_size_combobox
    status,             \* status_label (text template, its argument, colour)
    status_clear_job,   \* "pending" when an auto-clear job is scheduled, else "none"
    display,            \* the rows drawn by the last update_display
    console,            \* what the last handler printed
    today,              \* date.today()
    last,               \* the last event: handler, its inputs and its outcome
    ops,                \* events so far
    elapsed_call        \* a direct call of calculate_time_elapsed and its result

vars == <<pc, goals, data_file, settings_file, current_font_size, combobox, status,
          status_clear_job, display, console, today, last, ops, elapsed_call>>

NoEvent ==
    [op |-> "none", name |-> <<>>, date |-> <<>>, index |-> -1, result |-> "none",
     write |-> "none", refreshed |-> FALSE]

Event(op, name, date, index, result, write, refreshed) ==
    [op |-> op, name |-> name, date |-> date, index |-> index, result |-> result,
     write |-> write, refreshed |-> refreshed]

NoCall == [start |-> <<>>, today |-> NoDate, result |-> [text |-> <<>>, days |-> None]]

(***************************************************************************)
(* save_goals, update_display                                              *)
(***************************************************************************)
\* a save that does not sort
SortForSave_Unsorted(gs) == gs

\* self.goals.sort(key=lambda x: x.get('date', '0000-00-00'))   (line 294)
SortForSave(gs) ==
    Items(SortPairsByStr(
        [i \in 1..Len(gs) |-> <<Get(gs[i], "date", <<"0", "0", "0", "0", "-", "0", "0", "-", "0", "0">>), gs[i]>>]))

\* a save that undoes the last append when the write fails
save_goals_Rollback(gs, file, outcome) ==
    [goals  |-> IF outcome = "ok" THEN SortForSave(gs) ELSE SubSeq(gs, 1, Len(gs) - 1),
     file   |-> WriteFile(file, JsonDumpGoals(SortForSave(gs)), outcome),
     failed |-> outcome # "ok"]

\* save_goals: the list is sorted in place, then the file is written; a failure
\* is printed and shown in red (lines 290-299)
save_goals(gs, file, outcome) ==
    The({ [goals  |-> sorted,
           file   |-> WriteFile(file, JsonDumpGoals(sorted), outcome),
           failed |-> outcome # "ok"] : sorted \in {SortForSave(gs)} })

\* lines 316-320: sort by calendar date; on a date that does not parse, warn and
\* sort by the date strings
SortForDisplay(gs) ==
    LET dates == [i \in 1..Len(gs) |->
                    FromIsoFormat(Get(gs[i], "date", <<"9", "9", "9", "9", "-", "1", "2", "-", "3", "1">>))]
    IN  IF \A i \in 1..Len(gs) : dates[i].ok
        THEN [goals |-> Items(SortPairsByInt(
                            [i \in 1..Len(gs) |-> <<ToOrdinal(dates[i]), gs[i]>>])),
              fallback |-> FALSE]
        ELSE [goals |-> Items(SortPairsByStr(
                            [i \in 1..Len(gs) |->
                                <<Get(gs[i], "date", <<"9", "9", "9", "9", "-", "1", "2", "-", "3", "1">>), gs[i]>>])),
              fallback |-> TRUE]

\* rows whose delete buttons are bound one position too far
DrawRows_OffByOne(gs, day) ==
    [i \in 1..Len(gs) |->
        [index   |-> i,
         name    |-> Get(gs[i], "name", <<>>),
         date    |-> Get(gs[i], "date", <<>>),
         elapsed |-> calculate_time_elapsed(Get(gs[i], "date", <<>>), day).text]]

\* lines 322-353: one row per goal; the delete button of row index is bound to index
DrawRows(gs, day) ==
    [i \in 1..Len(gs) |->
        [index   |-> i - 1,
         name    |-> Get(gs[i], "name", <<"U", "n", "n", "a", "m", "e", "d", " ", "G", "o", "a", "l">>),
         date    |-> Get(gs[i], "date", <<"N", "o", " ", "D", "a", "t", "e">>),
         elapsed |-> calculate_time_elapsed(Get(gs[i], "date", <<"N", "o", " ", "D", "a", "t", "e">>), day).text]]

\* update_display: the list after the in-place sort, the rows drawn, and whether
\* the sort fell back to string order (lines 301-353)
update_display(gs, day) ==
    IF gs = <<>>
    THEN [goals |-> gs, rows |-> <<>>, fallback |-> FALSE]
    ELSE The({ [goals    |-> sorted.goals,
                rows     |-> DrawRows(sorted.goals, day),
                fallback |-> sorted.fallback] : sorted \in {SortForDisplay(gs)} })

SortWarning ==
    Status("Warning: Invalid date found in saved data during sorting.", <<>>, "orange")

(***************************************************************************)
(* Inputs explored                                                         *)
(***************************************************************************)
D_2019_12_31 == <<"2", "0", "1", "9", "-", "1", "2", "-", "3", "1">>

D_2020_01_01 == <<"2", "0", "2", "0", "-", "0", "1", "-", "0", "1">>

D_2022_12_31 == <<"2", "0", "2", "2", "-", "1", "2", "-", "3", "1">>

\* what the user types into entry_goal
NameInputs == { <<>>, <<"a">>, <<" ", "A", " ">>, <<"b">> }

\* what the user types into entry_date
DateInputs ==
    { <<>>, D_2020_01_01, <<" ">> \o D_2019_12_31 \o <<" ">>,
      <<"2", "0", "2", "3", "-", "0", "2", "-", "3", "0">> }

\* the index a delete request carries
IndexInputs == {-1, 0, 1, 10}

\* the combobox values the user picks, out of AVAILABLE_FONT_SIZES (line 26)
FontInputs == { IntToStr(s) : s \in {12, 24} }

\* date.today() of a session
Todays == { [ok |-> TRUE, year |-> 2023, month |-> 1, day |-> 1] }

GoalObj(n, d) == <<<<"name", n>>, <<"date", d>>>>

\* a data file the program wrote with nine goals, and one with ten
NineGoals ==
    << GoalObj(<<"a">>, D_2019_12_31), GoalObj(<<"d">>, D_2019_12_31),
       GoalObj(<<"e">>, D_2019_12_31), GoalObj(<<"f">>, D_2020_01_01),
       GoalObj(<<"g">>, D_2020_01_01), GoalObj(<<"h">>, D_2020_01_01),
       GoalObj(<<"i">>, D_2022_12_31), GoalObj(<<"j">>, D_2022_12_31),
       GoalObj(<<"k">>, D_2022_12_31) >>

TenGoals == Append(NineGoals, GoalObj(<<"l">>, D_2022_12_31))

\* goals_data.json when the program starts: absent, not JSON, or as written by
\* the program
DataFiles ==
    { MissingFile, CorruptFile, JsonFile(<<>>), JsonFile(NineGoals), JsonFile(TenGoals) }

\* settings.json when the program starts: absent, not JSON, without the key,
\* a size the program saved, sizes edited by hand, a string
SettingsFiles ==
    { MissingFile, CorruptFile, JsonFile(<<>>), JsonFile(SettingsDoc(14)),
      JsonFile(SettingsDoc(5)), JsonFile(SettingsDoc(13)),
      JsonFile(<<<<"font_size", JStr>>>>) }

(***************************************************************************)
(* load_settings, save_settings, load_goals                                *)
(***************************************************************************)
\* save_settings (lines 221-232): the file after the write
save_settings(size, file, outcome) == WriteFile(file, SettingsDoc(size), outcome)

\* settings_data.get("font_size", DEFAULT_FONT_SIZE)   (line 196)
LoadedSize(doc) ==
    IF \E i \in 1..Len(doc) : doc[i][1] = "font_size"
    THEN doc[CHOOSE i \in 1..Len(doc) : doc[i][1] = "font_size"][2]
    ELSE JInt(DEFAULT_FONT_SIZE)

\* MIN_FONT_SIZE <= size <= MAX_FONT_SIZE   (lines 198, 238)
SizeInRange(n) == MIN_FONT_SIZE <= n /\ n <= MAX_FONT_SIZE

\* load_settings during __init__, when status_label does not exist yet: a failed
\* save inside the try block raises AttributeError from update_status, which the
\* last handler (line 216) catches; a failed save inside the handler of line 211
\* raises out of load_settings (lines 190-218)
load_settings(file, outcome) ==
    IF file.kind = "missing"
    THEN [size |-> DEFAULT_FONT_SIZE,
          file |-> save_settings(DEFAULT_FONT_SIZE, file, outcome),
          write |-> outcome, raised |-> FALSE]
    ELSE IF file.kind = "corrupt" \/ LoadedSize(file.doc).t # "int"
    THEN [size |-> DEFAULT_FONT_SIZE,
          file |-> save_settings(DEFAULT_FONT_SIZE, file, outcome),
          write |-> outcome, raised |-> outcome # "ok"]
    ELSE IF SizeInRange(LoadedSize(file.doc).n)
    THEN [size |-> LoadedSize(file.doc).n, file |-> file,
          write |-> "none", raised |-> FALSE]
    ELSE [size |-> DEFAULT_FONT_SIZE,
          file |-> save_settings(DEFAULT_FONT_SIZE, file, outcome),
          write |-> outcome, raised |-> FALSE]

\* load_goals during __init__ (lines 274-288): on a file that does not parse the
\* handler calls update_status, and status_label does not exist yet (it is
\* created at line 166, load_goals runs at line 102): AttributeError
load_goals(file) ==
    IF file.kind = "missing" THEN [goals |-> <<>>, raised |-> FALSE]
    ELSE IF file.kind = "json" THEN [goals |-> JsonLoadGoals(file.doc), raised |-> FALSE]
    ELSE [goals |-> <<>>, raised |-> TRUE]

(***************************************************************************)
(* Actions                                                                 *)
(***************************************************************************)
\* no process yet; either the data file varies beside settings the program
\* saved, or the settings file varies beside no data file
Init ==
    /\ pc = "off"
    /\ goals = <<>>
    /\ \/ data_file \in DataFiles /\ settings_file = JsonFile(SettingsDoc(14))
       \/ data_file = MissingFile /\ settings_file \in SettingsFiles
    /\ current_font_size = DEFAULT_FONT_SIZE
    /\ combobox = <<>>
    /\ status = BlankStatus
    /\ status_clear_job = "none"
    /\ display = <<>>
    /\ console = {}
    /\ today \in Todays
    /\ last = NoEvent
    /\ ops = 0
    /\ elapsed_call = NoCall

\* GoalsApp.__init__ (lines 77-171): load_settings, load_goals, the widgets,
\* the first update_display; an exception ends the process
Startup(outcome) ==
    /\ pc \in {"off", "crashed"}
    /\ \E s \in {load_settings(settings_file, outcome)}, g \in {load_goals(data_file)} :
       \E d \in {update_display(g.goals, today)} :
           /\ settings_file' = s.file
           /\ IF s.raised \/ g.raised
              THEN /\ pc' = "crashed"
                   /\ goals' = <<>>
                   /\ display' = <<>>
                   /\ current_font_size' = DEFAULT_FONT_SIZE
                   /\ combobox' = <<>>
                   /\ status' = BlankStatus
                   /\ status_clear_job' = "none"
                   /\ last' = Event("startup", <<>>, <<>>, -1, "crashed", s.write, FALSE)
              ELSE /\ pc' = "idle"
                   /\ goals' = d.goals
                   /\ display' = d.rows
                   /\ current_font_size' = s.size
                   /\ combobox' = IntToStr(s.size)
                   /\ status' = IF d.fallback THEN SortWarning ELSE BlankStatus
                   /\ status_clear_job' = IF d.fallback THEN "pending" ELSE "none"
                   /\ last' = Event("startup", <<>>, <<>>, -1, "ok", s.write, TRUE)
           /\ console' =
                (IF s.write \notin {"none", "ok"} THEN {"Error saving settings"} ELSE {})
                \cup (IF s.raised THEN {"AttributeError: status_label"} ELSE {})
                \cup (IF ~s.raised /\ g.raised THEN {"AttributeError: status_label"} ELSE {})
    /\ UNCHANGED <<data_file, today, ops, elapsed_call>>

\* add_goal returning early with a message (lines 364-384); the event keeps the
\* texts as typed
AddRejected(raw_name, raw_date, result, message) ==
    /\ status' = message
    /\ status_clear_job' = StatusJob(message.color)
    /\ console' = {}
    /\ last' = Event("add_goal", raw_name, raw_date, -1, result, "none", FALSE)
    /\ UNCHANGED <<goals, data_file, display>>

\* a duplicate check that compares the names as typed
NameExists_CaseSensitive(gs, goal_name) ==
    \E i \in 1..Len(gs) : Get(gs[i], "name", <<>>) = goal_name

\* the duplicate check of lines 377-380
NameExists(gs, goal_name) ==
    \E i \in 1..Len(gs) : Lower(Get(gs[i], "name", <<>>)) = Lower(goal_name)

\* a capacity check that admits one record too many
AtCapacity_OffByOne(gs) == Len(gs) > MAX_GOALS

\* the capacity check of line 382
AtCapacity(gs) == Len(gs) >= MAX_GOALS

\* add_goal (lines 359-394)
AddGoal(raw_name, raw_date, outcome) ==
    /\ pc = "idle"
    /\ ops < MaxOps
    /\ ops' = ops + 1
    /\ \E goal_name \in {Strip(raw_name)}, goal_date_str \in {Strip(raw_date)} :
        \E s \in {save_goals(Append(goals, [name |-> goal_name, date |-> goal_date_str]),
                              data_file, outcome)} :
        \E d \in {update_display(s.goals, today)} :
           IF goal_name = <<>>
           THEN AddRejected(raw_name, raw_date, "EmptyName",
                            Status("Goal name cannot be empty.", <<>>, "orange"))
           ELSE IF goal_date_str = <<>>
           THEN AddRejected(raw_name, raw_date, "EmptyDate",
                            Status("Date cannot be empty.", <<>>, "orange"))
           ELSE IF ~FromIsoFormat(goal_date_str).ok
           THEN AddRejected(raw_name, raw_date, "InvalidDate",
                            Status("Invalid date format. Use YYYY-MM-DD.", <<>>, "red"))
           ELSE IF NameExists(goals, goal_name)
           THEN AddRejected(raw_name, raw_date, "DuplicateName",
                            Status("Goal '{goal_name}' already exists.", goal_name, "orange"))
           ELSE IF AtCapacity(goals)
           THEN AddRejected(raw_name, raw_date, "CapacityExceeded",
                            Status("Cannot add more than {MAX_GOALS} goals.", <<>>, "orange"))
           ELSE /\ goals' = d.goals
                /\ data_file' = s.file
                /\ display' = d.rows
                /\ status' = Status("Goal '{goal_name}' added successfully!", goal_name, "green")
                /\ status_clear_job' = StatusJob("green")
                /\ console' = IF s.failed THEN {"Error saving goals"} ELSE {}
                /\ last' = Event("add_goal", raw_name, raw_date, -1, "ok",
                                 outcome, TRUE)
    /\ UNCHANGED <<pc, settings_file, current_font_size, combobox, today, elapsed_call>>

\* a pop that ignores the index and removes the last element
Pop_Last(gs, index) == SubSeq(gs, 1, Len(gs) - 1)

\* self.goals.pop(index) for 0 <= index < len: the list without that element
Pop(gs, index) == SubSeq(gs, 1, index) \o SubSeq(gs, index + 2, Len(gs))

\* the range check of line 399
IndexValid(gs, index) == 0 <= index /\ index < Len(gs)

\* delete_goal (lines 397-413); pop cannot raise after the range check, so the
\* handlers of lines 405-410 are never entered
DeleteGoal(index, outcome) ==
    /\ pc = "idle"
    /\ ops < MaxOps
    /\ ops' = ops + 1
    /\ IF IndexValid(goals, index)
       THEN \E removed_goal \in {goals[index + 1]} :
            \E s \in {save_goals(Pop(goals, index), data_file, outcome)} :
            \E d \in {update_display(s.goals, today)} :
                /\ goals' = d.goals
                /\ data_file' = s.file
                /\ display' = d.rows
                /\ status' = Status("Goal '{name}' deleted.",
                                    Get(removed_goal, "name", <<"U", "n", "k", "n", "o", "w", "n">>),
                                    "#A9A9A9")
                /\ status_clear_job' = StatusJob("#A9A9A9")
                /\ console' = IF s.failed THEN {"Error saving goals"} ELSE {}
                /\ last' = Event("delete_goal", Get(removed_goal, "name", <<>>),
                                 Get(removed_goal, "date", <<>>), index, "ok", outcome, TRUE)
       ELSE /\ status' = Status("Error: Could not delete goal (invalid index).", <<>>, "red")
            /\ status_clear_job' = StatusJob("red")
            /\ console' = {"Error: Invalid index"}
            /\ last' = Event("delete_goal", <<>>, <<>>, index, "IndexOutOfRange",
                             "none", FALSE)
            /\ UNCHANGED <<goals, data_file, display>>
    /\ UNCHANGED <<pc, settings_file, current_font_size, combobox, today, elapsed_call>>

\* font_size_changed (lines 234-253); the widget shows the value picked
FontSizeChanged(selected_size_str, outcome) ==
    /\ pc = "idle"
    /\ ops < MaxOps
    /\ ops' = ops + 1
    /\ LET isInt == selected_size_str # <<>>
                    /\ \A i \in 1..Len(selected_size_str) : IsDigit(selected_size_str[i])
           new_size == DigitsToInt(selected_size_str)
       IN  \E d \in {update_display(goals, today)} :
           IF isInt /\ SizeInRange(new_size) /\ new_size # current_font_size
           THEN /\ current_font_size' = new_size
                /\ combobox' = selected_size_str
                /\ goals' = d.goals
                /\ display' = d.rows
                /\ settings_file' = save_settings(new_size, settings_file, outcome)
                /\ status' = IF outcome # "ok"
                             THEN Status("Error saving settings: {e}", <<>>, "red")
                             ELSE IF d.fallback THEN SortWarning ELSE status
                /\ status_clear_job' = IF outcome # "ok" THEN StatusJob("red")
                                       ELSE IF d.fallback THEN StatusJob("orange")
                                       ELSE status_clear_job
                /\ console' = {"Changing font size"}
                                \cup (IF outcome # "ok" THEN {"Error saving settings"} ELSE {})
                /\ last' = Event("font_size_changed", selected_size_str, <<>>, -1, "ok",
                                 outcome, TRUE)
           ELSE /\ combobox' = IF isInt /\ SizeInRange(new_size)
                               THEN selected_size_str
                               ELSE IntToStr(current_font_size)
                /\ console' = IF isInt /\ SizeInRange(new_size) THEN {}
                              ELSE {"Invalid font size"}
                /\ last' = Event("font_size_changed", selected_size_str, <<>>, -1,
                                 "unchanged", "none", FALSE)
                /\ UNCHANGED <<current_font_size, goals, display, settings_file, status,
                               status_clear_job>>
    /\ UNCHANGED <<pc, data_file, today, elapsed_call>>

\* the window is closed: mainloop returns and the process ends (lines 432-434)
Close ==
    /\ pc = "idle"
    /\ ops < MaxOps
    /\ ops' = ops + 1
    /\ pc' = "off"
    /\ goals' = <<>>
    /\ display' = <<>>
    /\ current_font_size' = DEFAULT_FONT_SIZE
    /\ combobox' = <<>>
    /\ status' = BlankStatus
    /\ status_clear_job' = "none"
    /\ console' = {}
    /\ last' = Event("close", <<>>, <<>>, -1, "ok", "none", FALSE)
    /\ UNCHANGED <<data_file, settings_file, today, elapsed_call>>

Next ==
    \/ \E o \in WriteOutcomes : Startup(o)
    \/ \E n \in NameInputs, dt \in DateInputs, o \in WriteOutcomes : AddGoal(n, dt, o)
    \/ \E i \in IndexInputs, o \in WriteOutcomes : DeleteGoal(i, o)
    \/ \E f \in FontInputs, o \in WriteOutcomes : FontSizeChanged(f, o)
    \/ Close

Spec == Init /\ [][Next]_vars

(***************************************************************************)
(* calculate_time_elapsed called on its own                                *)
(***************************************************************************)
\* the date strings passed
ElapsedStarts ==
    { D_2019_12_31, D_2020_01_01, D_2022_12_31,
      <<"2", "0", "2", "3", "-", "0", "1", "-", "0", "1">>,
      <<"2", "0", "2", "1", "-", "0", "1", "-", "0", "1">>,
      <<"2", "0", "2", "0", "-", "0", "2", "-", "2", "9">>,
      <<"2", "0", "2", "2", "-", "0", "1", "-", "0", "2">>,
      <<"2", "0", "9", "9", "-", "0", "1", "-", "0", "1">>,
      <<"2", "0", "2", "3", "-", "0", "2", "-", "3", "0">>,
      <<"n", "o", "t", "-", "a", "-", "d", "a", "t", "e">> }

Day(y, m, d) == [ok |-> TRUE, year |-> y, month |-> m, day |-> d]

\* the days on which it is called
ElapsedTodays ==
    { Day(2019, 12, 31), Day(2020, 1, 1), Day(2020, 1, 2), Day(2020, 12, 31),
      Day(2021, 1, 1), Day(2021, 12, 31), Day(2022, 1, 1), Day(2023, 1, 1),
      Day(2023, 1, 2), Day(2024, 2, 29) }

ElapsedInit ==
    /\ pc = "off"
    /\ goals = <<>>
    /\ data_file = MissingFile
    /\ settings_file = MissingFile
    /\ current_font_size = DEFAULT_FONT_SIZE
    /\ combobox = <<>>
    /\ status = BlankStatus
    /\ status_clear_job = "none"
    /\ display = <<>>
    /\ console = {}
    /\ today \in ElapsedTodays
    /\ last = NoEvent
    /\ ops = 0
    /\ elapsed_call = NoCall

\* one call of calculate_time_elapsed(start_date_str) on the day `today'
CallElapsed(start_date_str) ==
    /\ elapsed_call' = [start  |-> start_date_str,
                        today  |-> today,
                        result |-> calculate_time_elapsed(start_date_str, today)]
    /\ UNCHANGED <<pc, goals, data_file, settings_file, current_font_size, combobox,
                   status, status_clear_job, display, console, today, last, ops>>

ElapsedNext == \E s \in ElapsedStarts : CallElapsed(s)

SpecElapsed == ElapsedInit /\ [][ElapsedNext]_vars

(***************************************************************************)
(* Vocabulary of the properties                                            *)
(***************************************************************************)
AllBlank(s) == \A k \in 1..Len(s) : IsSpace(s[k])

\* s without its leading and trailing white space: from its first character
\* that is not white space to its last
TrimOf(s) ==
    IF AllBlank(s) THEN <<>>
    ELSE SubSeq(s,
                CHOOSE i \in 1..Len(s) : ~IsSpace(s[i]) /\ \A k \in 1..(i - 1) : IsSpace(s[k]),
                CHOOSE j \in 1..Len(s) : ~IsSpace(s[j]) /\ \A k \in (j + 1)..Len(s) : IsSpace(s[k]))

\* the rows that show the record {name, date}
RowsWith(rows, n, d) == {i \in 1..Len(rows) : rows[i].name = n /\ rows[i].date = d}

\* rows in ascending calendar order
RowsSortedByDate(rows) ==
    \A i, j \in 1..Len(rows) :
        i < j => ToOrdinal(FromIsoFormat(rows[i].date)) <= ToOrdinal(FromIsoFormat(rows[j].date))

\* some stored record has this name, ignoring case
StoredIgnoringCase(gs, n) == \E i \in 1..Len(gs) : Lower(gs[i].name) = Lower(n)

\* the typed name and date pass every check before the capacity check
AcceptableInput(gs, raw_name, raw_date) ==
    /\ TrimOf(raw_name) # <<>>
    /\ FromIsoFormat(TrimOf(raw_date)).ok
    /\ ~StoredIgnoringCase(gs, TrimOf(raw_name))

Records(gs) == {gs[i] : i \in 1..Len(gs)}

\* C1: from a store with fewer than MAX_GOALS records, an add whose name is
\* non-empty after trimming, whose date parses and whose name matches no stored
\* name ignoring case succeeds; the rows then shown are in date order, hold
\* exactly one row with the trimmed name and the date, and hold every record
\* stored before
C1_ValidAddSucceeds ==
    [][ ( /\ last'.op = "add_goal"
          /\ Len(goals) < MAX_GOALS
          /\ AcceptableInput(goals, last'.name, last'.date) )
        =>
        ( /\ last'.result = "ok"
          /\ Cardinality(RowsWith(display', TrimOf(last'.name), TrimOf(last'.date))) = 1
          /\ Cardinality({i \in 1..Len(display') : display'[i].name = TrimOf(last'.name)}) = 1
          /\ \A i \in 1..Len(goals) :
                RowsWith(display', goals[i].name, goals[i].date) # {}
          /\ Len(display') = Len(goals) + 1
          /\ RowsSortedByDate(display') ) ]_vars

\* C1 witness: a name typed with blanks around it was added to a store that
\* already held a record
C1_Witness ==
    /\ last.op = "add_goal"
    /\ last.result = "ok"
    /\ last.name = <<" ", "A", " ">>
    /\ Len(display) = 2
    /\ \E i \in 1..2 : display[i].name = <<"A">>

\* C2: with MAX_GOALS records stored every add fails and leaves the list and the
\* data file as they were, with CapacityExceeded when the input is otherwise
\* acceptable; no add takes the list beyond MAX_GOALS
C2_CapacityRejects ==
    [][ last'.op = "add_goal" =>
        /\ Len(goals) >= MAX_GOALS =>
              /\ last'.result # "ok"
              /\ goals' = goals
              /\ data_file' = data_file
              /\ AcceptableInput(goals, last'.name, last'.date)
                    => last'.result = "CapacityExceeded"
        /\ Len(goals) <= MAX_GOALS => Len(goals') <= MAX_GOALS ]_vars

\* C2 witness: an eleventh goal was refused
C2_Witness ==
    /\ last.op = "add_goal"
    /\ last.result = "CapacityExceeded"
    /\ Len(goals) = MAX_GOALS
    /\ data_file.kind = "json"
    /\ Len(data_file.doc) = MAX_GOALS

NoDuplicateNames(gs) ==
    \A lowered \in {[i \in 1..Len(gs) |-> Lower(gs[i].name)]} :
        \A i \in 1..Len(gs) : \A j \in (i + 1)..Len(gs) : lowered[i] # lowered[j]

\* C3: no two stored records have names equal ignoring case, before and after
\* every step; an add with a non-empty trimmed name and a date that parses, whose
\* name equals a stored name ignoring case, fails with DuplicateName and changes
\* neither the list, the file nor the rows
C3_NamesUnique ==
    [][ /\ NoDuplicateNames(goals)
        /\ NoDuplicateNames(goals')
        /\ ( /\ last'.op = "add_goal"
             /\ TrimOf(last'.name) # <<>>
             /\ FromIsoFormat(TrimOf(last'.date)).ok
             /\ StoredIgnoringCase(goals, TrimOf(last'.name)) )
           =>
           ( /\ last'.result = "DuplicateName"
             /\ goals' = goals
             /\ data_file' = data_file
             /\ display' = display ) ]_vars

\* C3 witness: " A " was refused while "a" is stored
C3_Witness ==
    /\ last.op = "add_goal"
    /\ last.result = "DuplicateName"
    /\ last.name = <<" ", "A", " ">>
    /\ \E i \in 1..Len(goals) : goals[i].name = <<"a">>

\* C4: a delete with 0 <= index < len removes the record at that position and
\* no other: the rows then shown lack it and hold every other record; a delete
\* with any other index fails with IndexOutOfRange and leaves the list and the
\* data file as they were
C4_RemoveAt ==
    [][ last'.op = "delete_goal" =>
        IF 0 <= last'.index /\ last'.index < Len(goals)
        THEN /\ last'.result = "ok"
             /\ Len(goals') = Len(goals) - 1
             /\ Len(display') = Len(goals) - 1
             /\ Records(goals') = Records(goals) \ {goals[last'.index + 1]}
             /\ RowsWith(display', goals[last'.index + 1].name,
                         goals[last'.index + 1].date) = {}
             /\ \A k \in 1..Len(goals) :
                    k # last'.index + 1 =>
                        RowsWith(display', goals[k].name, goals[k].date) # {}
        ELSE /\ last'.result = "IndexOutOfRange"
             /\ goals' = goals
             /\ data_file' = data_file ]_vars

\* C4 witness: the second of ten records was removed
C4_Witness ==
    /\ last.op = "delete_goal"
    /\ last.result = "ok"
    /\ last.index = 1
    /\ Len(goals) = MAX_GOALS - 1
    /\ \A i \in 1..Len(goals) : goals[i].name # last.name

SortedByDateString(gs) ==
    \A i, j \in 1..Len(gs) : i < j => ~StrLess(gs[j].date, gs[i].date)

\* C5: after a successful add or delete whose write succeeded, the data file is
\* a JSON document that loads without error to the records in memory (equal as
\* a set, and as many), in ascending order of the date strings
C5_RoundTrip ==
    ( /\ last.op \in {"add_goal", "delete_goal"}
      /\ last.result = "ok"
      /\ last.write = "ok" )
    =>
    ( /\ data_file.kind = "json"
      /\ ~load_goals(data_file).raised
      /\ Records(load_goals(data_file).goals) = Records(goals)
      /\ Len(load_goals(data_file).goals) = Len(goals)
      /\ SortedByDateString(load_goals(data_file).goals) )

\* C5 witness: the record added last was written ahead of an older one
C5_Witness ==
    /\ last.op = "add_goal"
    /\ last.result = "ok"
    /\ last.write = "ok"
    /\ data_file.kind = "json"
    /\ Len(data_file.doc) = 2
    /\ load_goals(data_file).goals[1].name = TrimOf(last.name)

\* C6: loading at start-up is never fatal: with the data file missing or not
\* parsing as JSON (and no failed write of the settings file) start-up runs to
\* completion with the empty list
C6_LoadNeverFatal ==
    ( /\ last.op = "startup"
      /\ data_file.kind \in {"missing", "corrupt"}
      /\ last.write \in {"none", "ok"} )
    => ( pc = "idle" /\ goals = <<>> )

\* the stored font_size is out of range or missing
StoredSizeUnusable(file) ==
    /\ file.kind = "json"
    /\ \/ \A i \in 1..Len(file.doc) : file.doc[i][1] # "font_size"
       \/ /\ LoadedSize(file.doc).t = "int"
          /\ ~(MIN_FONT_SIZE <= LoadedSize(file.doc).n /\ LoadedSize(file.doc).n <= MAX_FONT_SIZE)

\* C7: after the settings are loaded the effective font size is one of
\* 12, 14, ..., 24; when the stored font_size is out of range or missing the
\* effective size is 16 and the settings file is rewritten with 16
C7_FontSizeValidated ==
    [][ (last'.op = "startup" /\ pc' = "idle") =>
        /\ current_font_size' \in AvailableSizes
        /\ StoredSizeUnusable(settings_file) =>
              /\ current_font_size' = DEFAULT_FONT_SIZE
              /\ settings_file' = JsonFile(SettingsDoc(DEFAULT_FONT_SIZE)) ]_vars

\* the phrase the claim describes for deltaDays > 0
ClaimedPhrase(deltaDays) ==
    LET Y == deltaDays \div 365
        D == deltaDays % 365
        yearClause == IntToStr(Y) \o STR_year \o (IF Y > 1 THEN <<"s">> ELSE <<>>)
        dayClause  == IntToStr(D) \o STR_day \o (IF D # 1 THEN <<"s">> ELSE <<>>)
    IN  (IF Y > 0 /\ D > 0 THEN yearClause \o <<",", " ">> \o dayClause
         ELSE IF Y > 0 THEN yearClause
         ELSE dayClause) \o STR_ago

\* C8: for a start date that parses, with deltaDays = today - date: the day count
\* is None when deltaDays < 0; the result is ("Today is the day!", 0) when
\* deltaDays = 0; when deltaDays > 0 the day count is deltaDays and the phrase is
\* the year clause (only when deltaDays \div 365 > 0) and the day clause (only
\* when deltaDays % 365 > 0), joined by ", " and followed by " ago", never just
\* " ago"; 2020-01-01 seen from 2023-01-01 gives 1096 days and "3 year"
C8_ElapsedPhrase ==
    ( elapsed_call # NoCall /\ FromIsoFormat(elapsed_call.start).ok )
    =>
    \A deltaDays \in {ToOrdinal(elapsed_call.today)
                        - ToOrdinal(FromIsoFormat(elapsed_call.start))} :
        /\ deltaDays < 0 => elapsed_call.result.days = None
        /\ deltaDays = 0 => elapsed_call.result = [text |-> TODAY_MSG, days |-> Some(0)]
        /\ deltaDays > 0 =>
              /\ elapsed_call.result.days = Some(deltaDays)
              /\ elapsed_call.result.text = ClaimedPhrase(deltaDays)
              /\ elapsed_call.result.text # STR_ago
        /\ ( elapsed_call.start = D_2020_01_01 /\ elapsed_call.today = Day(2023, 1, 1) )
              => /\ elapsed_call.result.days = Some(1096)
                 /\ Contains(elapsed_call.result.text, <<"3", " ", "y", "e", "a", "r">>)

\* C8 witness: 2020-01-01 seen from 2023-01-01, three years and one day
C8_Witness ==
    /\ elapsed_call.start = D_2020_01_01
    /\ elapsed_call.today = Day(2023, 1, 1)
    /\ elapsed_call.result.text = <<"3", " ", "y", "e", "a", "r", "s", ",", " ", "1", " ", "d", "a", "y", " ", "a", "g", "o">>

\* C9 as claimed: after a successful add or delete whose write failed the data
\* file has its previous content
C9_FileKeepsPreviousContent ==
    [][ ( /\ last'.op \in {"add_goal", "delete_goal"}
          /\ last'.result = "ok"
          /\ last'.write # "ok" )
        => data_file' = data_file ]_vars

\* C9, amended: when the write fails during an otherwise successful add or
\* delete the failure is printed, the process goes on, and the change in memory
\* stays: the list holds the added record (or lacks the removed one) and the
\* rows are drawn from it; the data file is not updated: it has its previous
\* content when it could not be opened, and is left truncated, no JSON document,
\* when the write failed after the open
C9_WriteFailureKeepsMutation ==
    [][ ( /\ last'.op \in {"add_goal", "delete_goal"}
          /\ last'.result = "ok"
          /\ last'.write # "ok" )
        =>
        ( /\ pc' = "idle"
          /\ "Error saving goals" \in console'
          /\ last'.op = "add_goal" =>
                /\ Len(goals') = Len(goals) + 1
                /\ Records(goals') = Records(goals)
                      \cup {[name |-> TrimOf(last'.name), date |-> TrimOf(last'.date)]}
          /\ last'.op = "delete_goal" =>
                /\ Len(goals') = Len(goals) - 1
                /\ Records(goals') = Records(goals) \ {goals[last'.index + 1]}
          /\ Len(display') = Len(goals')
          /\ \A i \in 1..Len(goals') :
                display'[i].name = goals'[i].name /\ display'[i].date = goals'[i].date
          /\ last'.write = "open_failed" => data_file' = data_file
          /\ last'.write = "dump_failed" => data_file'.kind = "corrupt" ) ]_vars

\* C9 witness: a record was added in memory while the write left the file
\* truncated, and the memory differs from what the file held
C9_Witness ==
    /\ last.op = "add_goal"
    /\ last.result = "ok"
    /\ last.write = "dump_failed"
    /\ data_file = CorruptFile
    /\ Len(goals) = MAX_GOALS
    /\ pc = "idle"

\* C10: a delete request with an out-of-range position shows an error message
\* and is followed by a refresh of the display
C10_StaleDeleteRefreshes ==
    ( last.op = "delete_goal" /\ last.result = "IndexOutOfRange" )
    => ( status.color = "red" /\ last.refreshed )

\* the rows on screen are the in-memory list: row i carries the delete button
\* bound to index i and shows the record at that index (positions from 0)
DisplayInSync(rows, gs) ==
    /\ Len(rows) = Len(gs)
    /\ \A i \in 1..Len(gs) :
          /\ rows[i].index = i - 1
          /\ rows[i].name = gs[i].name
          /\ rows[i].date = gs[i].date

\* C11: whenever the application is idle, the delete button at display position
\* i is bound to index i of the in-memory list and the record at that index is
\* the one drawn there; so a click on the delete button of a row removes the
\* record shown in that row and no other
C11_ButtonsMatchRows ==
    [][ /\ pc' = "idle" => DisplayInSync(display', goals')
        /\ \A k \in 1..Len(display) :
              ( /\ pc = "idle"
                /\ last'.op = "delete_goal"
                /\ last'.index = display[k].index )
              =>
              ( /\ last'.result = "ok"
                /\ RowsWith(display', display[k].name, display[k].date) = {}
                /\ Records(goals') =
                      Records(goals) \ {[name |-> display[k].name, date |-> display[k].date]}
                /\ Len(goals') = Len(goals) - 1 ) ]_vars

\* C11 witness: idle after the button of the first of ten rows was clicked, the
\* write having failed, with nine rows on screen matching the list
C11_Witness ==
    /\ pc = "idle"
    /\ last.op = "delete_goal"
    /\ last.result = "ok"
    /\ last.index = 0
    /\ last.write = "open_failed"
    /\ Len(display) = MAX_GOALS - 1
    /\ display[1].index = 0
    /\ display[1].name = goals[1].name

====
